---- MODULE Spec2Model ----
(***************************************************************************)
(* Model of google/appengine/api/modules/modules.py: the public            *)
(* operations of the Modules API, each served either by the legacy RPC     *)
(* backend or by the Admin API (REST) backend.                             *)
(*                                                                         *)
(* A public call is one action.  The responses of the transport calls the  *)
(* handler issues are inputs of the action; every transport call issued is *)
(* appended to the log `calls`, and the outcome of the call (a returned    *)
(* value or a raised exception) is left in `result`.                       *)
(***************************************************************************)
EXTENDS Integers, Sequences, FiniteSets, TLC

VARIABLES
  optedIn,   \* os.environ MODULES_USE_ADMIN_API == 'true'
  env,       \* the process environment variables the module reads
  pc,        \* "idle": no call made yet; "done": a public call has finished
  op,        \* name of the public operation that was called
  args,      \* its arguments
  calls,     \* transport calls issued by the call, in order
  result,    \* its outcome
  rpcs       \* the asynchronous handles (_ThreadedRpc / UserRPC) it created

vars == <<optedIn, env, pc, op, args, calls, result, rpcs>>

(***************************************************************************)
(* Bounds of the model.                                                    *)
(***************************************************************************)
MaxEntries == 3     \* entries in a traffic-split allocation map
MaxInstance == 3    \* largest instance index / instance count drawn
MaxHandles == 2     \* asynchronous handles in flight at the same time

(***************************************************************************)
(* Python values.                                                          *)
(***************************************************************************)
NoneV == "<None>"                      \* Python None where a str is expected

Return(v) == [kind |-> "return", value |-> v, error |-> "none", msg |-> ""]
RaiseMsg(e, m) == [kind |-> "raise", value |-> NoneV, error |-> e, msg |-> m]
Raise(e) == RaiseMsg(e, "")

\* Version names used in allocation maps, with their code points: Python
\* compares str values code point by code point.
CodePoints ==
  [ n \in {"V2", "v1", "v10", "v2"} |->
      CASE n = "V2"  -> <<86, 50>>
        [] n = "v1"  -> <<118, 49>>
        [] n = "v10" -> <<118, 49, 48>>
        [] n = "v2"  -> <<118, 50>> ]

VersionNames == DOMAIN CodePoints

RECURSIVE SeqLess(_, _)
SeqLess(a, b) ==
  IF b = <<>> THEN FALSE
  ELSE IF a = <<>> THEN TRUE
  ELSE IF Head(a) # Head(b) THEN Head(a) < Head(b)
  ELSE SeqLess(Tail(a), Tail(b))

\* str.__lt__
PyStrLess(a, b) == SeqLess(CodePoints[a], CodePoints[b])

(***************************************************************************)
(* Process environment.                                                    *)
(***************************************************************************)
Environments ==
  { [GAE_SERVICE |-> "default", CURRENT_MODULE_ID |-> "default",
     GAE_VERSION |-> "v1", CURRENT_VERSION_ID |-> "v1"],
    [GAE_SERVICE |-> NoneV, CURRENT_MODULE_ID |-> "foo",
     GAE_VERSION |-> NoneV, CURRENT_VERSION_ID |-> "v2"],
    [GAE_SERVICE |-> "foo", CURRENT_MODULE_ID |-> "default",
     GAE_VERSION |-> "v2", CURRENT_VERSION_ID |-> "v1"] }

\* os.environ.get(name) or other
Or(a, b) == IF a = NoneV \/ a = "" THEN b ELSE a

get_current_module_name == Or(env.GAE_SERVICE, env.CURRENT_MODULE_ID)

\* CURRENT_VERSION_ID holds 'major.minor'; env.CURRENT_VERSION_ID is its major
\* part, the result of split('.')[0].
get_current_version_name == Or(env.GAE_VERSION, env.CURRENT_VERSION_ID)

\* os.environ.get('GAE_SERVICE', 'default')
GaeServiceOrDefault == IF env.GAE_SERVICE = NoneV THEN "default" ELSE env.GAE_SERVICE

(***************************************************************************)
(* Error mapping of the two backends.                                      *)
(***************************************************************************)
HttpErrorStatuses == {400, 401, 404, 500, 503}

\* The message of get_modules for an unknown project,
\* f"Project '{project_id}' not found.", with the project id 'project'.
ProjectNotFound == "Project 'project' not found."

\* Variant: only status 500 is a TransientError.
_raise_error_Only500(status) ==
  IF status = 400 THEN "InvalidInstancesError"
  ELSE IF status = 404 THEN "InvalidVersionError"
  ELSE IF status = 500 THEN "TransientError"
  ELSE "Error"

\* Variant: a 404 is reported as an invalid module.
_raise_error_NotFoundIsModule(status) ==
  IF status = 400 THEN "InvalidInstancesError"
  ELSE IF status = 404 THEN "InvalidModuleError"
  ELSE IF status >= 500 THEN "TransientError"
  ELSE "Error"

\* _raise_error(e): HTTP status -> exception class
_raise_error(status) ==
  IF status = 400 THEN "InvalidInstancesError"
  ELSE IF status = 404 THEN "InvalidVersionError"
  ELSE IF status >= 500 THEN "TransientError"
  ELSE "Error"

ApplicationErrors ==
  {"INVALID_MODULE", "INVALID_VERSION", "INVALID_INSTANCES",
   "TRANSIENT_ERROR", "UNEXPECTED_STATE", "1099"}

_MODULE_SERVICE_ERROR_MAP ==
  [ c \in ApplicationErrors |->
      CASE c = "INVALID_INSTANCES" -> "InvalidInstancesError"
        [] c = "INVALID_MODULE"    -> "InvalidModuleError"
        [] c = "INVALID_VERSION"   -> "InvalidVersionError"
        [] c = "TRANSIENT_ERROR"   -> "TransientError"
        [] c = "UNEXPECTED_STATE"  -> "UnexpectedStateError"
        [] OTHER                   -> NoneV ]

\* Variant: every code of the error map is mapped, expected or not.
_CheckAsyncResult_MapsAllKnown(code, expected_application_errors, ignored_application_errors, value) ==
  IF code = "OK" THEN Return(value)
  ELSE IF code \in ignored_application_errors THEN Return(NoneV)
  ELSE IF _MODULE_SERVICE_ERROR_MAP[code] # NoneV
       THEN Raise(_MODULE_SERVICE_ERROR_MAP[code])
  ELSE RaiseMsg("Error", code)

\* _CheckAsyncResult: the outcome of an RPC that ended with application error
\* `code` ("OK" when rpc.check_success() does not raise); `value` is what the
\* result hook returns after a successful check.
_CheckAsyncResult(code, expected_application_errors, ignored_application_errors, value) ==
  IF code = "OK" THEN Return(value)
  ELSE IF code \in ignored_application_errors THEN Return(NoneV)
  ELSE IF code \in expected_application_errors
          /\ _MODULE_SERVICE_ERROR_MAP[code] # NoneV
       THEN Raise(_MODULE_SERVICE_ERROR_MAP[code])
  ELSE RaiseMsg("Error", code)

\* One entry of the transport log.
Call(backend, method, request, response) ==
  [backend |-> backend, method |-> method, request |-> request,
   response |-> response]

\* A Python value passed as `instance` or joined into a hostname: None, an
\* int or a str.
InstNone == [t |-> "none", i |-> 0, s |-> ""]
IntInst(i) == [t |-> "int", i |-> i, s |-> ""]
StrInst(s) == [t |-> "str", i |-> 0, s |-> s]

NoArgs == [module |-> NoneV, version |-> NoneV, instance |-> InstNone]

(***************************************************************************)
(* get_default_version                                                     *)
(***************************************************************************)
AllocOne == 4            \* the allocation 1.0, allocations counted in quarters
Allocations == 0..AllocOne

\* A dict of version -> allocation in iteration order: a sequence of items
\* with pairwise different keys.
Keys(d) == { d[i].version : i \in 1..Len(d) }

RECURSIVE DictsOfLen(_)
DictsOfLen(n) ==
  IF n = 0 THEN { <<>> }
  ELSE UNION { { Append(d, [version |-> v, allocation |-> a]) :
                   v \in VersionNames \ Keys(d), a \in Allocations } :
               d \in DictsOfLen(n - 1) }

AllocationDicts == UNION { DictsOfLen(n) : n \in 0..MaxEntries }

\* Variants of the scan, each with one slip in the loop body.
RECURSIVE ScanAllocations_BreakOnly(_, _, _, _)
ScanAllocations_BreakOnly(items, i, retVersion, maxAlloc) ==
  IF i > Len(items) THEN retVersion
  ELSE LET version == items[i].version
           allocation == items[i].allocation
       IN IF allocation = AllocOne THEN retVersion
          ELSE IF allocation > maxAlloc
            THEN ScanAllocations_BreakOnly(items, i + 1, version, allocation)
          ELSE IF allocation = maxAlloc
            THEN IF PyStrLess(version, retVersion)
                   THEN ScanAllocations_BreakOnly(items, i + 1, version, maxAlloc)
                   ELSE ScanAllocations_BreakOnly(items, i + 1, retVersion, maxAlloc)
          ELSE ScanAllocations_BreakOnly(items, i + 1, retVersion, maxAlloc)

RECURSIVE ScanAllocations_NoMaxUpdate(_, _, _, _)
ScanAllocations_NoMaxUpdate(items, i, retVersion, maxAlloc) ==
  IF i > Len(items) THEN retVersion
  ELSE LET version == items[i].version
           allocation == items[i].allocation
       IN IF allocation = AllocOne THEN version
          ELSE IF allocation > maxAlloc
            THEN ScanAllocations_NoMaxUpdate(items, i + 1, version, maxAlloc)
          ELSE ScanAllocations_NoMaxUpdate(items, i + 1, retVersion, maxAlloc)

RECURSIVE ScanAllocations_TieLargest(_, _, _, _)
ScanAllocations_TieLargest(items, i, retVersion, maxAlloc) ==
  IF i > Len(items) THEN retVersion
  ELSE LET version == items[i].version
           allocation == items[i].allocation
       IN IF allocation = AllocOne THEN version
          ELSE IF allocation > maxAlloc
            THEN ScanAllocations_TieLargest(items, i + 1, version, allocation)
          ELSE IF allocation = maxAlloc
            THEN IF PyStrLess(retVersion, version)
                   THEN ScanAllocations_TieLargest(items, i + 1, version, maxAlloc)
                   ELSE ScanAllocations_TieLargest(items, i + 1, retVersion, maxAlloc)
          ELSE ScanAllocations_TieLargest(items, i + 1, retVersion, maxAlloc)

RECURSIVE ScanAllocations_NoTieBreak(_, _, _, _)
ScanAllocations_NoTieBreak(items, i, retVersion, maxAlloc) ==
  IF i > Len(items) THEN retVersion
  ELSE LET version == items[i].version
           allocation == items[i].allocation
       IN IF allocation = AllocOne THEN version
          ELSE IF allocation > maxAlloc
            THEN ScanAllocations_NoTieBreak(items, i + 1, version, allocation)
          ELSE ScanAllocations_NoTieBreak(items, i + 1, retVersion, maxAlloc)

\* The loop of get_default_version over allocations.items(), from item i on.
RECURSIVE ScanAllocations(_, _, _, _)
ScanAllocations(items, i, retVersion, maxAlloc) ==
  IF i > Len(items) THEN retVersion
  ELSE LET version == items[i].version
           allocation == items[i].allocation
       IN IF allocation = AllocOne THEN version
          ELSE IF allocation > maxAlloc
            THEN ScanAllocations(items, i + 1, version, allocation)
          ELSE IF allocation = maxAlloc
            THEN IF PyStrLess(version, retVersion)
                   THEN ScanAllocations(items, i + 1, version, maxAlloc)
                   ELSE ScanAllocations(items, i + 1, retVersion, maxAlloc)
          ELSE ScanAllocations(items, i + 1, retVersion, maxAlloc)

\* Bodies of a successful apps.services.get response: no 'split', a split
\* without 'allocations', or a split with an allocations dict.
ServiceBodies ==
  { [hasSplit |-> FALSE, hasAllocations |-> FALSE, allocations |-> <<>>],
    [hasSplit |-> TRUE, hasAllocations |-> FALSE, allocations |-> <<>>] }
  \cup { [hasSplit |-> TRUE, hasAllocations |-> TRUE, allocations |-> d] :
           d \in AllocationDicts }

\* response.get('split', {}).get('allocations'), then the scan when the dict
\* is truthy.
SelectDefaultVersion(body) ==
  IF body.hasSplit /\ body.hasAllocations /\ body.allocations # <<>>
    THEN ScanAllocations(body.allocations, 1, NoneV, -1)
    ELSE NoneV

\* Variant: the final check for "no version found" is missing.
DefaultVersionOutcome_NoRaise(body) == Return(SelectDefaultVersion(body))

\* Lines 354-374: the outcome of get_default_version on a successful response.
DefaultVersionOutcome(body) ==
  LET retVersion == SelectDefaultVersion(body)
  IN IF retVersion = NoneV
       THEN RaiseMsg("InvalidVersionError", "Could not determine default version")
       ELSE Return(retVersion)

ModuleArgs == {NoneV, "default", "foo"}

get_default_version_admin(module) ==
  LET servicesId == IF module = NoneV THEN GaeServiceOrDefault ELSE module
      request == [module |-> servicesId, version |-> NoneV, instance |-> NoneV]
  IN \/ \E status \in HttpErrorStatuses :
          /\ calls' = <<Call("admin", "apps.services.get", request,
                             [status |-> status])>>
          /\ result' = IF status = 404 THEN Raise("InvalidModuleError")
                       ELSE Raise(_raise_error(status))
     \/ \E body \in ServiceBodies :
          /\ calls' = <<Call("admin", "apps.services.get", request,
                             [status |-> 200, body |-> body])>>
          /\ result' = DefaultVersionOutcome(body)

get_default_version_legacy(module) ==
  LET request == [module |-> module, version |-> NoneV, instance |-> NoneV]
  IN \E code \in ApplicationErrors \cup {"OK"}, version \in {"v1", "v2"} :
       /\ calls' = <<Call("legacy", "GetDefaultVersion", request,
                          [code |-> code])>>
       /\ result' = _CheckAsyncResult(code,
                       {"INVALID_MODULE", "INVALID_VERSION"}, {}, version)

get_default_version(module) ==
  /\ pc = "idle"
  /\ pc' = "done"
  /\ op' = "get_default_version"
  /\ args' = [NoArgs EXCEPT !.module = module]
  /\ IF ~optedIn THEN get_default_version_legacy(module)
     ELSE get_default_version_admin(module)
  /\ UNCHANGED <<optedIn, env, rpcs>>

(***************************************************************************)
(* The caller goes on to its next call.                                    *)
(***************************************************************************)
NextCall ==
  /\ pc = "done"
  /\ pc' = "idle"
  /\ op' = "none"
  /\ args' = NoArgs
  /\ calls' = <<>>
  /\ result' = Return(NoneV)
  /\ rpcs' = <<>>
  /\ UNCHANGED <<optedIn, env>>

Init ==
  /\ optedIn \in BOOLEAN
  /\ env \in Environments
  /\ pc = "idle"
  /\ op = "none"
  /\ args = NoArgs
  /\ calls = <<>>
  /\ result = Return(NoneV)
  /\ rpcs = <<>>

NextDefaultVersion ==
  \/ \E module \in ModuleArgs : get_default_version(module)
  \/ NextCall

SpecDefaultVersion == Init /\ [][NextDefaultVersion]_vars

(***************************************************************************)
(* get_hostname                                                            *)
(***************************************************************************)
\* str(i) and int(s) for the integers the model draws.
DecimalDigits == <<"0", "1", "2", "3", "4", "5", "6", "7", "8", "9">>
PyStr(i) == IF i < 0 THEN "-1" ELSE DecimalDigits[i + 1]

\* int(x): the integer, or ValueError for a str that is no decimal literal.
PyInt(x) ==
  IF x.t = "int" THEN [ok |-> TRUE, v |-> x.i]
  ELSE IF \E i \in -1..9 : PyStr(i) = x.s
    THEN [ok |-> TRUE, v |-> CHOOSE i \in -1..9 : PyStr(i) = x.s]
    ELSE [ok |-> FALSE, v |-> 0]

\* bool(x)
Truthy(x) ==
  CASE x.t = "none" -> FALSE
    [] x.t = "int" -> x.i # 0
    [] x.t = "str" -> x.s # ""

\* Variant: the test for a negative instance is missing.
InstanceIsValid_NoSignCheck(instance) == PyInt(instance).ok

\* Lines 734-740: instance_id = int(instance) succeeds and is not negative.
InstanceIsValid(instance) ==
  PyInt(instance).ok /\ ~(PyInt(instance).v < 0)

\* _construct_hostname: '.'.join(parts) raises TypeError unless every part
\* is a str; the hostname is kept as the tuple of its dot-separated parts.
_construct_hostname(parts) ==
  IF \E k \in 1..Len(parts) : parts[k].t # "str"
    THEN Raise("TypeError")
    ELSE Return([k \in 1..Len(parts) |-> parts[k].s])

DefaultHostname == "project.appspot.com"

ServiceLists ==
  { <<>>, <<"default">>, <<"foo">>, <<"default", "foo">>, <<"foo", "bar">> }
VersionLists == { <<>>, <<"v1", "v2">>, <<"v2">> }

\* Bodies of a successful apps.services.versions.get response.
VersionDetails ==
  { [hasManualScaling |-> FALSE, hasInstances |-> FALSE, instances |-> 0],
    [hasManualScaling |-> TRUE, hasInstances |-> FALSE, instances |-> 0] }
  \cup { [hasManualScaling |-> TRUE, hasInstances |-> TRUE, instances |-> n] :
           n \in 0..(MaxInstance + 1) }

InstanceArgs ==
  {InstNone, StrInst("foo")}
  \cup { IntInst(i) : i \in -1..MaxInstance }
  \cup { StrInst(PyStr(i)) : i \in -1..MaxInstance }
HostModuleArgs == {NoneV, "default", "foo", "baz"}
VersionArgs == {NoneV, "v1", "v3"}

Range(q) == { q[k] : k \in 1..Len(q) }

\* The call ends with transport log `log` and outcome r.
Finish(log, r) == calls' = log /\ result' = r

\* Variant: the membership test of the target module is missing.
ModuleKnown_NoCheck(req_module, services) == TRUE

\* Line 759: req_module in services
ModuleKnown(req_module, services) == req_module \in Range(services)

\* Lines 762-768: the application has the single service 'default'.
LegacyAppHostname(instance, req_version, default_hostname) ==
  IF Truthy(instance)
    THEN _construct_hostname(<<instance, StrInst(req_version),
                               StrInst(default_hostname)>>)
    ELSE _construct_hostname(<<StrInst(req_version),
                               StrInst(default_hostname)>>)

\* Variant: a version without manualScaling is read as having no instances.
InstanceHostname_NoScalingCheck(instance, details, req_version, req_module, default_hostname) ==
  LET num_instances == IF details.hasManualScaling /\ details.hasInstances
                         THEN details.instances ELSE 0
  IN IF PyInt(instance).v >= num_instances
       THEN RaiseMsg("InvalidInstancesError",
                     "The specified instance does not exist for this module/version.")
       ELSE _construct_hostname(<<instance, StrInst(req_version),
                                  StrInst(req_module), StrInst(default_hostname)>>)

\* Lines 777-786: the outcome once the version details were read.
InstanceHostname(instance, details, req_version, req_module, default_hostname) ==
  IF ~details.hasManualScaling
    THEN RaiseMsg("InvalidInstancesError",
                  "Instance-specific hostnames are only available for manually scaled services.")
  ELSE LET num_instances == IF details.hasInstances THEN details.instances ELSE 0
       IN IF PyInt(instance).v >= num_instances
            THEN RaiseMsg("InvalidInstancesError",
                          "The specified instance does not exist for this module/version.")
            ELSE _construct_hostname(<<instance, StrInst(req_version),
                                       StrInst(req_module), StrInst(default_hostname)>>)

\* Lines 770-792: an instance was given, in an application with services.
InstanceBranch(log, instance, req_module, req_version, default_hostname) ==
  LET request == [module |-> req_module, version |-> req_version, instance |-> NoneV]
  IN \/ \E status \in HttpErrorStatuses :
          Finish(Append(log, Call("admin", "apps.services.versions.get", request,
                                  [status |-> status])),
                 IF status = 404 THEN Raise("InvalidModuleError")
                 ELSE Raise(_raise_error(status)))
     \/ \E details \in VersionDetails :
          Finish(Append(log, Call("admin", "apps.services.versions.get", request,
                                  [status |-> 200, body |-> details])),
                 InstanceHostname(instance, details, req_version, req_module,
                                  default_hostname))

\* Variant: the current version is used without looking it up in the list.
NoVersionBranch_AlwaysVersion(log, req_module, req_version, default_hostname) ==
  LET request == [module |-> req_module, version |-> NoneV, instance |-> NoneV]
  IN \/ \E status \in HttpErrorStatuses :
          Finish(Append(log, Call("admin", "apps.services.versions.list", request,
                                  [status |-> status])),
                 IF status = 404 THEN Raise("InvalidModuleError")
                 ELSE Raise(_raise_error(status)))
     \/ \E versions_list \in VersionLists :
          Finish(Append(log, Call("admin", "apps.services.versions.list", request,
                                  [status |-> 200, body |-> versions_list])),
                 _construct_hostname(<<StrInst(req_version), StrInst(req_module),
                                       StrInst(default_hostname)>>))

\* Lines 795-814: neither a version nor an instance was given; the versions
\* of the target module are listed with get_versions (lines 285-300).
NoVersionBranch(log, req_module, req_version, default_hostname) ==
  LET request == [module |-> req_module, version |-> NoneV, instance |-> NoneV]
  IN \/ \E status \in HttpErrorStatuses :
          Finish(Append(log, Call("admin", "apps.services.versions.list", request,
                                  [status |-> status])),
                 IF status = 404 THEN Raise("InvalidModuleError")
                 ELSE Raise(_raise_error(status)))
     \/ \E versions_list \in VersionLists :
          Finish(Append(log, Call("admin", "apps.services.versions.list", request,
                                  [status |-> 200, body |-> versions_list])),
                 IF req_version \in Range(versions_list)
                   THEN _construct_hostname(<<StrInst(req_version), StrInst(req_module),
                                              StrInst(default_hostname)>>)
                   ELSE _construct_hostname(<<StrInst(req_module),
                                              StrInst(default_hostname)>>))

\* Variant: an explicit version is looked up in the version list as well.
ResolveHostname_ChecksVersion(log, module, version, instance, services, default_hostname) ==
  LET req_module == Or(module, get_current_module_name)
      req_version == Or(version, get_current_version_name)
  IN IF ~ModuleKnown(req_module, services)
       THEN Finish(log, Raise("InvalidModuleError"))
     ELSE IF Len(services) = 1 /\ services[1] = "default"
       THEN IF req_module # "default"
              THEN Finish(log, RaiseMsg("InvalidModuleError", "Module not found."))
              ELSE Finish(log, LegacyAppHostname(instance, req_version, default_hostname))
     ELSE IF instance.t # "none"
       THEN InstanceBranch(log, instance, req_module, req_version, default_hostname)
     ELSE NoVersionBranch(log, req_module, req_version, default_hostname)

\* Lines 759-817: after the service list and the application were read.
ResolveHostname(log, module, version, instance, services, default_hostname) ==
  LET req_module == Or(module, get_current_module_name)
      req_version == Or(version, get_current_version_name)
  IN IF ~ModuleKnown(req_module, services)
       THEN Finish(log, Raise("InvalidModuleError"))
     ELSE IF Len(services) = 1 /\ services[1] = "default"
       THEN IF req_module # "default"
              THEN Finish(log, RaiseMsg("InvalidModuleError", "Module not found."))
              ELSE Finish(log, LegacyAppHostname(instance, req_version, default_hostname))
     ELSE IF instance.t # "none"
       THEN InstanceBranch(log, instance, req_module, req_version, default_hostname)
     ELSE IF version = NoneV
       THEN NoVersionBranch(log, req_module, req_version, default_hostname)
     ELSE Finish(log, _construct_hostname(<<StrInst(version), StrInst(req_module),
                                            StrInst(default_hostname)>>))

\* Lines 734-757: validation of the instance, then get_modules() (lines
\* 239-250) and apps.get.
get_hostname_admin(module, version, instance) ==
  LET empty == [module |-> NoneV, version |-> NoneV, instance |-> NoneV]
  IN IF instance.t # "none" /\ ~InstanceIsValid(instance)
       THEN Finish(<<>>, RaiseMsg("InvalidInstancesError",
                                  "Instance must be a non-negative integer."))
     ELSE
       \/ \E status \in HttpErrorStatuses :
            Finish(<<Call("admin", "apps.services.list", empty, [status |-> status])>>,
                   IF status = 404 THEN RaiseMsg("Error", ProjectNotFound)
                   ELSE Raise(_raise_error(status)))
       \/ \E services \in ServiceLists :
            LET log1 == <<Call("admin", "apps.services.list", empty,
                               [status |-> 200, body |-> services])>>
            IN \/ \E status \in HttpErrorStatuses :
                    Finish(Append(log1, Call("admin", "apps.get", empty,
                                             [status |-> status])),
                           Raise(_raise_error(status)))
               \/ ResolveHostname(
                    Append(log1, Call("admin", "apps.get", empty,
                                      [status |-> 200, body |-> DefaultHostname])),
                    module, version, instance, services, DefaultHostname)

\* Lines 819-839: one GetHostname RPC; the service validates the request.
get_hostname_legacy(module, version, instance) ==
  LET request == [module |-> module, version |-> version,
                  instance |-> IF Truthy(instance) \/ instance = IntInst(0)
                                 THEN (IF instance.t = "int" THEN PyStr(instance.i)
                                       ELSE instance.s)
                                 ELSE NoneV]
  IN \E code \in ApplicationErrors \cup {"OK"} :
       Finish(<<Call("legacy", "GetHostname", request, [code |-> code])>>,
              _CheckAsyncResult(code, {"INVALID_MODULE", "INVALID_INSTANCES"}, {},
                                <<"abc">>))

get_hostname(module, version, instance) ==
  /\ pc = "idle"
  /\ pc' = "done"
  /\ op' = "get_hostname"
  /\ args' = [module |-> module, version |-> version, instance |-> instance]
  /\ IF ~optedIn THEN get_hostname_legacy(module, version, instance)
     ELSE get_hostname_admin(module, version, instance)
  /\ UNCHANGED <<optedIn, env, rpcs>>

NextHostname ==
  \/ \E module \in HostModuleArgs, version \in VersionArgs, instance \in InstanceArgs :
       get_hostname(module, version, instance)
  \/ NextCall

SpecHostname == Init /\ [][NextHostname]_vars

(***************************************************************************)
(* Properties of get_default_version (Admin backend).                      *)
(***************************************************************************)
\* The call was get_default_version under the Admin backend and the service
\* read succeeded.
DefaultVersionRead ==
  /\ pc = "done" /\ op = "get_default_version" /\ optedIn
  /\ calls[1].response.status = 200

SplitBody == calls[1].response.body
SplitItems == SplitBody.allocations
HasItems == SplitBody.hasSplit /\ SplitBody.hasAllocations /\ SplitItems # <<>>

IndicesAt(items, a) == { i \in 1..Len(items) : items[i].allocation = a }
MaxAllocation(items) ==
  CHOOSE a \in Allocations :
    /\ IndicesAt(items, a) # {}
    /\ \A i \in 1..Len(items) : items[i].allocation <= a
TiedAtMax(items) == IndicesAt(items, MaxAllocation(items))
SmallestName(items, idx) ==
  CHOOSE v \in { items[i].version : i \in idx } :
    \A i \in idx : items[i].version = v \/ PyStrLess(v, items[i].version)
Min(S) == CHOOSE x \in S : \A y \in S : x <= y

\* Every iteration order of the same set of items.
RECURSIVE OrdersOf(_)
OrdersOf(S) ==
  IF S = {} THEN { <<>> }
  ELSE UNION { { <<x>> \o p : p \in OrdersOf(S \ {x}) } : x \in S }
Reorderings(items) == OrdersOf({ items[i] : i \in 1..Len(items) })

\* C1: when some entry of the allocation map has allocation exactly 1.0,
\* get_default_version returns the name of an entry whose allocation is 1.0,
\* wherever that entry stands in the map and whatever the other entries are.
C1_FullAllocationWins ==
  (DefaultVersionRead /\ HasItems /\ IndicesAt(SplitItems, AllocOne) # {})
    => /\ result.kind = "return"
       /\ \E i \in IndicesAt(SplitItems, AllocOne) :
            SplitItems[i].version = result.value

C1_Witness ==
  /\ DefaultVersionRead /\ HasItems
  /\ Len(SplitItems) = 3
  /\ IndicesAt(SplitItems, AllocOne) = {3}
  /\ SplitItems[1].allocation = 2
  /\ result = Return(SplitItems[3].version)

\* C2: when one entry of a non-empty allocation map (allocations in
\* [0.0, 1.0]) holds an allocation strictly above every other entry's,
\* get_default_version returns that entry's name, whatever the entry order.
C2_UniqueMaximumWins ==
  (DefaultVersionRead /\ HasItems /\ Cardinality(TiedAtMax(SplitItems)) = 1)
    => \A i \in TiedAtMax(SplitItems) : result = Return(SplitItems[i].version)

C2_Witness ==
  /\ DefaultVersionRead /\ HasItems
  /\ Len(SplitItems) = 3
  /\ TiedAtMax(SplitItems) = {2}
  /\ MaxAllocation(SplitItems) = 2
  /\ SplitItems[1].allocation = 1 /\ SplitItems[3].allocation = 1
  /\ result = Return(SplitItems[2].version)

\* C3 (as claimed): whenever several entries tie at the maximum allocation,
\* ties at 1.0 included, the lexicographically smallest tied name is returned.
C3_TieSmallestName_Claimed ==
  (DefaultVersionRead /\ HasItems /\ Cardinality(TiedAtMax(SplitItems)) > 1)
    => result = Return(SmallestName(SplitItems, TiedAtMax(SplitItems)))

\* C3 (amended): whenever several entries tie at a maximum allocation below
\* 1.0 (ties at 0.0 included) the lexicographically smallest tied name is
\* returned; when several entries have allocation 1.0 the first of them in
\* iteration order is returned.
C3_TieSmallestNameBelowOne ==
  (DefaultVersionRead /\ HasItems /\ Cardinality(TiedAtMax(SplitItems)) > 1)
    => IF MaxAllocation(SplitItems) < AllocOne
         THEN result = Return(SmallestName(SplitItems, TiedAtMax(SplitItems)))
         ELSE result = Return(SplitItems[Min(TiedAtMax(SplitItems))].version)

C3_Witness ==
  /\ DefaultVersionRead /\ HasItems
  /\ Len(SplitItems) = 3
  /\ TiedAtMax(SplitItems) = {1, 3}
  /\ MaxAllocation(SplitItems) = 2
  /\ SplitItems[1].version = "v2" /\ SplitItems[3].version = "v10"
  /\ result = Return("v10")

\* C4: without a split, without an allocations field, or with an empty
\* allocations map get_default_version raises InvalidVersionError; for every
\* non-empty map it returns one of the map's keys.
C4_EmptySplitRaises ==
  DefaultVersionRead
    => IF HasItems
         THEN result.kind = "return" /\ result.value \in Keys(SplitItems)
         ELSE result = RaiseMsg("InvalidVersionError",
                                "Could not determine default version")

C4_Witness ==
  /\ DefaultVersionRead
  /\ SplitBody.hasSplit /\ SplitBody.hasAllocations /\ SplitItems = <<>>
  /\ result.kind = "raise" /\ result.error = "InvalidVersionError"

\* C5 (as claimed): the outcome depends only on the set of (version,
\* allocation) pairs: every reordering of the map gives the same outcome.
C5_OrderIndependent_Claimed ==
  (DefaultVersionRead /\ HasItems)
    => \A p \in Reorderings(SplitItems) :
         DefaultVersionOutcome([SplitBody EXCEPT !.allocations = p]) = result

\* C5 (amended): for maps in which at most one entry has allocation exactly
\* 1.0, every reordering of the map gives the same outcome.
C5_OrderIndependentSingleOne ==
  (DefaultVersionRead /\ HasItems
     /\ Cardinality(IndicesAt(SplitItems, AllocOne)) <= 1)
    => \A p \in Reorderings(SplitItems) :
         DefaultVersionOutcome([SplitBody EXCEPT !.allocations = p]) = result

C5_Witness ==
  /\ DefaultVersionRead /\ HasItems
  /\ Len(SplitItems) = 3
  /\ Cardinality(TiedAtMax(SplitItems)) = 2
  /\ MaxAllocation(SplitItems) = 1
  /\ \E p \in Reorderings(SplitItems) :
       /\ p[1].version # SplitItems[1].version
       /\ DefaultVersionOutcome([SplitBody EXCEPT !.allocations = p]) = result

(***************************************************************************)
(* Properties of get_hostname.                                             *)
(***************************************************************************)
HostnameDone == pc = "done" /\ op = "get_hostname"
InstanceGiven == args.instance.t # "none"

\* The instance denotes a non-negative integer: an int >= 0 or a str that is
\* the decimal literal of one.
ParsesAsNonNegativeInt(x) ==
  \/ x.t = "int" /\ x.i >= 0
  \/ x.t = "str" /\ \E k \in 1..Len(DecimalDigits) : DecimalDigits[k] = x.s
InstanceNumber(x) ==
  IF x.t = "int" THEN x.i
  ELSE (CHOOSE k \in 1..Len(DecimalDigits) : DecimalDigits[k] = x.s) - 1

\* The service list and the application were both read successfully.
ReadsOk ==
  /\ optedIn /\ Len(calls) >= 2
  /\ calls[1].response.status = 200 /\ calls[2].response.status = 200
FetchedServices == calls[1].response.body
ReqModule == IF args.module = NoneV THEN get_current_module_name ELSE args.module
ReqVersion == IF args.version = NoneV THEN get_current_version_name ELSE args.version
LegacyTopology == FetchedServices = <<"default">>
VersionRead ==
  /\ Len(calls) = 3 /\ calls[3].method = "apps.services.versions.get"
  /\ calls[3].response.status = 200
ReadDetails == calls[3].response.body

InvalidInstanceOutcome ==
  /\ result.kind = "raise" /\ result.error = "InvalidInstancesError"
  /\ result.msg = "Instance must be a non-negative integer."
  /\ calls = <<>>

\* C6 (as claimed): under either backend, get_hostname with an instance that
\* does not parse as a non-negative integer raises InvalidInstancesError
\* and has issued no transport call.
C6_InvalidInstanceRejected_Claimed ==
  (HostnameDone /\ InstanceGiven /\ ~ParsesAsNonNegativeInt(args.instance))
    => InvalidInstanceOutcome

\* C6 (amended): under the Admin backend, get_hostname with an instance that
\* does not parse as a non-negative integer raises InvalidInstancesError
\* and has issued no transport call.
C6_InvalidInstanceRejectedAdmin ==
  (HostnameDone /\ optedIn /\ InstanceGiven /\ ~ParsesAsNonNegativeInt(args.instance))
    => InvalidInstanceOutcome

C6_Witness ==
  /\ HostnameDone /\ optedIn
  /\ args.instance = IntInst(-1)
  /\ InvalidInstanceOutcome

\* C7: under the Admin backend, once the service list and the application
\* are read, a target module (explicit, else current) that is not in the
\* list makes get_hostname raise InvalidModuleError before any further read,
\* whatever the topology and the other arguments; a hostname is returned
\* only for a module of the list.
C7_UnknownModuleRejected ==
  (HostnameDone /\ optedIn)
    => /\ (ReadsOk /\ ReqModule \notin Range(FetchedServices))
            => /\ result.kind = "raise" /\ result.error = "InvalidModuleError"
               /\ Len(calls) = 2
       /\ result.kind = "return"
            => ReadsOk /\ ReqModule \in Range(FetchedServices)

C7_Witness ==
  /\ HostnameDone /\ ReadsOk
  /\ args.module = "baz" /\ args.instance = StrInst("1") /\ args.version = "v1"
  /\ FetchedServices = <<"default", "foo">>
  /\ result.kind = "raise" /\ result.error = "InvalidModuleError"

\* C8 (as claimed): when the service list is exactly ['default'],
\* get_hostname returns version.<suffix> without an instance and
\* instance.version.<suffix> for every valid instance, instance 0 and
\* int-typed instances included.
C8_LegacyAppHostname_Claimed ==
  (HostnameDone /\ ReadsOk /\ LegacyTopology /\ ReqModule = "default")
    => IF InstanceGiven
         THEN result = Return(<<PyStr(InstanceNumber(args.instance)), ReqVersion,
                                DefaultHostname>>)
         ELSE result = Return(<<ReqVersion, DefaultHostname>>)

\* C9 (as claimed): with several services, an instance i and a manually
\* scaled version of n instances (0 when the field is missing),
\* get_hostname returns i.version.module.<suffix> when i < n and raises
\* InvalidInstancesError ("does not exist") when i >= n.
C9_InstanceBounded_Claimed ==
  (HostnameDone /\ ReadsOk /\ Len(FetchedServices) > 1
     /\ ReqModule \in Range(FetchedServices) /\ InstanceGiven
     /\ VersionRead /\ ReadDetails.hasManualScaling)
    => LET i == InstanceNumber(args.instance)
           n == IF ReadDetails.hasInstances THEN ReadDetails.instances ELSE 0
       IN IF i < n
            THEN result = Return(<<PyStr(i), ReqVersion, ReqModule, DefaultHostname>>)
            ELSE /\ result.kind = "raise" /\ result.error = "InvalidInstancesError"
                 /\ result.msg = "The specified instance does not exist for this module/version."

\* C10: with several services and a valid instance, the version's details
\* are read, and when they have no manualScaling section get_hostname raises
\* InvalidInstancesError ("only available for manually scaled services");
\* a hostname is returned only for a version with a manualScaling section.
C10_NotManuallyScaledRejected ==
  (HostnameDone /\ ReadsOk /\ ~LegacyTopology
     /\ ReqModule \in Range(FetchedServices) /\ InstanceGiven)
    => /\ Len(calls) = 3 /\ calls[3].method = "apps.services.versions.get"
       /\ (VersionRead /\ ~ReadDetails.hasManualScaling)
            => result = RaiseMsg("InvalidInstancesError",
                 "Instance-specific hostnames are only available for manually scaled services.")
       /\ result.kind = "return" => VersionRead /\ ReadDetails.hasManualScaling

C10_Witness ==
  /\ HostnameDone /\ ReadsOk
  /\ FetchedServices = <<"default", "foo">>
  /\ args.instance = IntInst(0)
  /\ VersionRead /\ ~ReadDetails.hasManualScaling
  /\ result.kind = "raise" /\ result.error = "InvalidInstancesError"

VersionListRead ==
  /\ Len(calls) = 3 /\ calls[3].method = "apps.services.versions.list"
  /\ calls[3].response.status = 200
MultiService ==
  ReadsOk /\ ~LegacyTopology /\ ReqModule \in Range(FetchedServices)

\* C11: with several services, no version and no instance, get_hostname
\* lists the versions of the target module and returns
\* currentVersion.module.<suffix> when the caller's current version is in
\* the list, and module.<suffix> when it is not.
C11_UnversionedHostname ==
  (HostnameDone /\ MultiService /\ ~InstanceGiven /\ args.version = NoneV)
    => /\ Len(calls) = 3 /\ calls[3].method = "apps.services.versions.list"
       /\ calls[3].request.module = ReqModule
       /\ VersionListRead
            => result =
                 IF get_current_version_name \in Range(calls[3].response.body)
                   THEN Return(<<get_current_version_name, ReqModule, DefaultHostname>>)
                   ELSE Return(<<ReqModule, DefaultHostname>>)

C11_Witness ==
  /\ HostnameDone /\ MultiService /\ VersionListRead
  /\ args.module = "foo" /\ args.version = NoneV /\ ~InstanceGiven
  /\ get_current_version_name = "v1"
  /\ calls[3].response.body = <<"v2">>
  /\ result = Return(<<"foo", DefaultHostname>>)

LastCall == calls[Len(calls)]
AdminReadFailed(status) ==
  /\ HostnameDone /\ optedIn /\ calls # <<>>
  /\ LastCall.response.status = status
Taxonomy ==
  {"Error", "InvalidModuleError", "InvalidVersionError", "InvalidInstancesError",
   "TransientError", "UnexpectedStateError"}

\* C14 (as claimed): under the Admin backend every read of get_hostname (the
\* service list, the application, a version's details, the version list)
\* that is answered 404 makes the call raise InvalidModuleError, and every
\* other failed read makes it raise an error of the taxonomy.
C14_ReadNotFoundIsInvalidModule_Claimed ==
  /\ AdminReadFailed(404)
       => (result.kind = "raise" /\ result.error = "InvalidModuleError")
  /\ \A status \in HttpErrorStatuses \ {404} :
       AdminReadFailed(status)
         => (result.kind = "raise" /\ result.error \in Taxonomy)

(***************************************************************************)
(* The operations that issue a single request: get_modules, get_versions,  *)
(* get_num_instances and the three mutators set_num_instances,             *)
(* start_version and stop_version with their _async forms.                 *)
(***************************************************************************)
OpVersionArgs == {NoneV, "v1"}
Request(module, version) == [module |-> module, version |-> version, instance |-> NoneV]
LegacyCodes == ApplicationErrors \cup {"OK"}

\* `if x:` on an optional str argument: the protobuf field is left unset.
IfSet(x) == IF x = NoneV \/ x = "" THEN NoneV ELSE x

\* A public call that finishes in one step.
Called(name, a) ==
  /\ pc = "idle"
  /\ pc' = "done"
  /\ op' = name
  /\ args' = a
  /\ UNCHANGED <<optedIn, env>>

\* Bodies of a successful apps.services.list response: a dict that may lack
\* the 'services' field; each service is a dict with an 'id'.
ServiceListBodies ==
  { [hasServices |-> TRUE,
     services |-> [i \in 1..Len(ids) |-> [id |-> ids[i], split |-> "allocations"]]] :
      ids \in ServiceLists }
  \cup { [hasServices |-> FALSE, services |-> <<>>] }

\* [service['id'] for service in response.get('services', [])]
ServiceIds(body) ==
  LET services == IF body.hasServices THEN body.services ELSE <<>>
  IN [i \in 1..Len(services) |-> services[i].id]

\* Variant: an unknown project is reported as an invalid module.
get_modules_admin_NotFoundIsModule ==
  \/ \E status \in HttpErrorStatuses :
       Finish(<<Call("admin", "apps.services.list", Request(NoneV, NoneV),
                     [status |-> status])>>,
              IF status = 404 THEN Raise("InvalidModuleError")
              ELSE Raise(_raise_error(status)))
  \/ \E body \in ServiceListBodies :
       Finish(<<Call("admin", "apps.services.list", Request(NoneV, NoneV),
                     [status |-> 200, body |-> body])>>,
              Return(ServiceIds(body)))

\* Lines 239-250.
get_modules_admin ==
  \/ \E status \in HttpErrorStatuses :
       Finish(<<Call("admin", "apps.services.list", Request(NoneV, NoneV),
                     [status |-> status])>>,
              IF status = 404 THEN RaiseMsg("Error", ProjectNotFound)
              ELSE Raise(_raise_error(status)))
  \/ \E body \in ServiceListBodies :
       Finish(<<Call("admin", "apps.services.list", Request(NoneV, NoneV),
                     [status |-> 200, body |-> body])>>,
              Return(ServiceIds(body)))

\* Lines 253-263.
get_modules_legacy ==
  \E code \in LegacyCodes, services \in {<<"default", "foo">>} :
    Finish(<<Call("legacy", "GetModules", Request(NoneV, NoneV), [code |-> code])>>,
           _CheckAsyncResult(code, {}, {}, services))

get_modules ==
  /\ Called("get_modules", NoArgs)
  /\ IF ~optedIn THEN get_modules_legacy ELSE get_modules_admin
  /\ rpcs' = <<>>

\* Lines 285-300.
get_versions_admin(module) ==
  LET servicesId == IF module = NoneV \/ module = "" THEN GaeServiceOrDefault ELSE module
  IN \/ \E status \in HttpErrorStatuses :
          Finish(<<Call("admin", "apps.services.versions.list",
                        Request(servicesId, NoneV), [status |-> status])>>,
                 IF status = 404 THEN Raise("InvalidModuleError")
                 ELSE Raise(_raise_error(status)))
     \/ \E versions_list \in VersionLists :
          Finish(<<Call("admin", "apps.services.versions.list",
                        Request(servicesId, NoneV),
                        [status |-> 200, body |-> versions_list])>>,
                 Return(versions_list))

\* Lines 302-318.
get_versions_legacy(module) ==
  \E code \in LegacyCodes, versions_list \in {<<"v1", "v2">>} :
    Finish(<<Call("legacy", "GetVersions", Request(IfSet(module), NoneV),
                  [code |-> code])>>,
           _CheckAsyncResult(code, {"INVALID_MODULE", "TRANSIENT_ERROR"}, {},
                             versions_list))

get_versions(module) ==
  /\ Called("get_versions", [NoArgs EXCEPT !.module = module])
  /\ IF ~optedIn THEN get_versions_legacy(module) ELSE get_versions_admin(module)
  /\ rpcs' = <<>>

\* Variant: a version without manual scaling has no instances.
get_num_instances_admin_NoScalingCheck(module, version) ==
  LET servicesId == IF module = NoneV THEN get_current_module_name ELSE module
      versionsId == IF version = NoneV THEN get_current_version_name ELSE version
  IN \/ \E status \in HttpErrorStatuses :
          Finish(<<Call("admin", "apps.services.versions.get",
                        Request(servicesId, versionsId), [status |-> status])>>,
                 IF status = 404 THEN Raise("InvalidModuleError")
                 ELSE Raise(_raise_error(status)))
     \/ \E details \in VersionDetails :
          Finish(<<Call("admin", "apps.services.versions.get",
                        Request(servicesId, versionsId),
                        [status |-> 200, body |-> details])>>,
                 IF ~details.hasManualScaling THEN Return(InstNone)
                 ELSE IF details.hasInstances THEN Return(IntInst(details.instances))
                 ELSE Return(InstNone))

\* Lines 419-440.
get_num_instances_admin(module, version) ==
  LET servicesId == IF module = NoneV THEN get_current_module_name ELSE module
      versionsId == IF version = NoneV THEN get_current_version_name ELSE version
  IN \/ \E status \in HttpErrorStatuses :
          Finish(<<Call("admin", "apps.services.versions.get",
                        Request(servicesId, versionsId), [status |-> status])>>,
                 IF status = 404 THEN Raise("InvalidModuleError")
                 ELSE Raise(_raise_error(status)))
     \/ \E details \in VersionDetails :
          Finish(<<Call("admin", "apps.services.versions.get",
                        Request(servicesId, versionsId),
                        [status |-> 200, body |-> details])>>,
                 IF ~details.hasManualScaling THEN Raise("InvalidVersionError")
                 ELSE IF details.hasInstances THEN Return(IntInst(details.instances))
                 ELSE Return(InstNone))

\* Lines 443-456.
get_num_instances_legacy(module, version) ==
  \E code \in LegacyCodes, instances \in {2} :
    Finish(<<Call("legacy", "GetNumInstances", Request(IfSet(module), IfSet(version)),
                  [code |-> code])>>,
           _CheckAsyncResult(code, {"INVALID_VERSION"}, {}, IntInst(instances)))

get_num_instances(module, version) ==
  /\ Called("get_num_instances", [NoArgs EXCEPT !.module = module, !.version = version])
  /\ IF ~optedIn THEN get_num_instances_legacy(module, version)
     ELSE get_num_instances_admin(module, version)
  /\ rpcs' = <<>>

(***************************************************************************)
(* The mutators.  Each _async form validates its arguments, builds the     *)
(* request and hands it to a worker: a _ThreadedRpc whose thread issues    *)
(* the PATCH (Admin), or a UserRPC dispatched by make_call (Legacy).  The  *)
(* blocking form is the _async form followed by get_result().              *)
(***************************************************************************)
InstancesArgs == {IntInst(2), StrInst("not-an-int"), InstNone}

\* Variant: no type check.
IsInteger_Always(x) == TRUE

\* isinstance(instances, six.integer_types)
IsInteger(x) == x.t = "int"

PatchRequest(module, version, update_mask, value) ==
  [module |-> module, version |-> version, instance |-> NoneV,
   update_mask |-> update_mask, value |-> value]

\* execute() ended without an HTTP response: the HTTP client (httplib2, 60 s
\* timeout) raised an exception that is not an HttpError.
NoHttpResponse == [status |-> 0, already |-> FALSE]
TransportException == "socket.timeout"

\* What a PATCH can be answered: the HTTP status, and whether the answer
\* reports that the version already is in the requested state.
PatchResponses ==
  [status : {200} \cup HttpErrorStatuses, already : BOOLEAN]
  \cup {NoHttpResponse}

\* What an _async form does before it returns: raise TypeError, or hand a
\* request to a worker.
TypeErrorPlan ==
  [raises |-> TRUE, backend |-> "none", method |-> "none",
   request |-> Request(NoneV, NoneV), expected |-> {}, ignored |-> {}]
AdminPlan(request) ==
  [raises |-> FALSE, backend |-> "admin", method |-> "apps.services.versions.patch",
   request |-> request, expected |-> {}, ignored |-> {}]
LegacyPlan(method, request, expected, ignored) ==
  [raises |-> FALSE, backend |-> "legacy", method |-> method,
   request |-> request, expected |-> expected, ignored |-> ignored]

\* Lines 518-539.
set_num_instances_async_admin(instances, module, version) ==
  IF ~IsInteger(instances) THEN TypeErrorPlan
  ELSE AdminPlan(PatchRequest(
         IF module = NoneV THEN get_current_module_name ELSE module,
         IF version = NoneV THEN get_current_version_name ELSE version,
         "manualScaling.instances", instances))

\* Lines 541-558.
set_num_instances_async_legacy(instances, module, version) ==
  IF ~IsInteger(instances) THEN TypeErrorPlan
  ELSE LegacyPlan("SetNumInstances",
                  [module |-> IfSet(module), version |-> IfSet(version),
                   instance |-> NoneV, instances |-> instances],
                  {"INVALID_VERSION", "TRANSIENT_ERROR"}, {})

\* Lines 591-607 and 663-679.
serving_status_async_admin(module, version, servingStatus) ==
  AdminPlan(PatchRequest(
    IF module = NoneV THEN get_current_module_name ELSE module,
    IF version = NoneV THEN get_current_version_name ELSE version,
    "servingStatus", StrInst(servingStatus)))

\* Lines 609-626: the fields are assigned unconditionally, and assigning None
\* to a protobuf string field raises TypeError.
start_version_async_legacy(module, version) ==
  IF module = NoneV \/ version = NoneV THEN TypeErrorPlan
  ELSE LegacyPlan("StartModule", Request(module, version),
                  {"INVALID_VERSION", "TRANSIENT_ERROR"}, {"UNEXPECTED_STATE"})

\* Lines 681-700.
stop_version_async_legacy(module, version) ==
  LegacyPlan("StopModule", Request(IfSet(module), IfSet(version)),
             {"INVALID_VERSION", "TRANSIENT_ERROR"}, {"UNEXPECTED_STATE"})

AsyncForms == {"set_num_instances_async", "start_version_async", "stop_version_async"}

\* The handle an _async form returns.
Handle(plan, done, outcome) ==
  [kind |-> IF plan.backend = "admin" THEN "thread" ELSE "userrpc",
   plan |-> plan, done |-> done, outcome |-> outcome]

\* run_request (PATCH, HttpError -> _raise_error) and, for a UserRPC, the
\* result hook over the RPC's application error.
Outcome(plan, response) ==
  IF plan.backend = "admin"
    THEN (IF response.status = 200 THEN Return(NoneV)
          ELSE IF response = NoHttpResponse THEN Raise(TransportException)
          ELSE Raise(_raise_error(response.status)))
    ELSE _CheckAsyncResult(response.code, plan.expected, plan.ignored, NoneV)

Responses(plan) ==
  IF plan.backend = "admin" THEN PatchResponses ELSE [code : LegacyCodes]

\* An _async form: returns the handle; the Admin thread has been started,
\* the Legacy RPC has been dispatched by make_call.
Submit(name, a, plan) ==
  /\ pc = "idle"
  /\ op' = name
  /\ args' = a
  /\ IF plan.raises
       THEN /\ pc' = "done"
            /\ result' = Raise("TypeError")
            /\ calls' = <<>>
            /\ rpcs' = <<>>
       ELSE /\ pc' = "pending"
            /\ result' = Return("<rpc>")
            /\ calls' = IF plan.backend = "admin" THEN <<>>
                        ELSE <<Call("legacy", plan.method, plan.request,
                                    [code |-> "PENDING"])>>
            /\ rpcs' = <<Handle(plan, FALSE, Return(NoneV))>>
  /\ UNCHANGED <<optedIn, env>>

\* Variant: the worker repeats a PATCH that was answered 500 or above.
_run_target_RetriesTransient ==
  /\ pc \in {"pending", "checked"}
  /\ rpcs[1].kind = "thread" /\ ~rpcs[1].done
  /\ \E first, response \in PatchResponses :
       LET patch(r) == Call("admin", rpcs[1].plan.method, rpcs[1].plan.request, r)
       IN /\ calls' = IF first.status >= 500
                         THEN calls \o <<patch(first), patch(response)>>
                         ELSE Append(calls, patch(response))
          /\ rpcs' = <<Handle(rpcs[1].plan, TRUE, Outcome(rpcs[1].plan, response))>>
  /\ UNCHANGED <<optedIn, env, pc, op, args, result>>

\* _ThreadedRpc._run_target: the worker thread issues the PATCH and keeps
\* the exception, if any.
_run_target ==
  /\ pc \in {"pending", "checked"}
  /\ rpcs[1].kind = "thread" /\ ~rpcs[1].done
  /\ \E response \in PatchResponses :
       /\ calls' = Append(calls, Call("admin", rpcs[1].plan.method,
                                      rpcs[1].plan.request, response))
       /\ rpcs' = <<Handle(rpcs[1].plan, TRUE, Outcome(rpcs[1].plan, response))>>
  /\ UNCHANGED <<optedIn, env, pc, op, args, result>>

\* The dispatched RPC is answered.
RpcCompletes ==
  /\ pc = "pending"
  /\ rpcs[1].kind = "userrpc" /\ ~rpcs[1].done
  /\ \E response \in [code : LegacyCodes] :
       /\ calls' = <<Call("legacy", rpcs[1].plan.method, rpcs[1].plan.request,
                          response)>>
       /\ rpcs' = <<Handle(rpcs[1].plan, TRUE, Outcome(rpcs[1].plan, response))>>
  /\ UNCHANGED <<optedIn, env, pc, op, args, result>>

\* Variant: the stored exception is cleared once it has been raised.
get_result_ClearsException ==
  /\ \/ pc \in {"pending", "checked"}
     \/ pc = "done" /\ op \in AsyncForms /\ rpcs # <<>> /\ rpcs[1].kind = "thread"
  /\ rpcs[1].done
  /\ pc' = "done"
  /\ result' = rpcs[1].outcome
  /\ rpcs' = <<[rpcs[1] EXCEPT !.outcome = Return(NoneV)]>>
  /\ UNCHANGED <<optedIn, env, op, args, calls>>

\* rpc.get_result() on the handle: waits for completion, then returns None or
\* raises what the worker left.
get_result ==
  /\ \/ pc \in {"pending", "checked"}
     \/ pc = "done" /\ op \in AsyncForms /\ rpcs # <<>> /\ rpcs[1].kind = "thread"
  /\ rpcs[1].done
  /\ pc' = "done"
  /\ result' = rpcs[1].outcome
  /\ UNCHANGED <<optedIn, env, op, args, calls, rpcs>>

\* _ThreadedRpc.check_success(): raises the exception the worker has stored
\* so far, otherwise returns; it does not wait for the worker.
check_success ==
  /\ pc \in {"pending", "checked"}
  /\ rpcs[1].kind = "thread"
  /\ pc' = "checked"
  /\ result' = rpcs[1].outcome
  /\ UNCHANGED <<optedIn, env, op, args, calls, rpcs>>

\* Variant: the blocking form does not call get_result() on the handle.
Blocking_NoGetResult(name, a, plan) ==
  /\ Called(name, a)
  /\ IF plan.raises
       THEN /\ result' = Raise("TypeError")
            /\ calls' = <<>>
            /\ rpcs' = <<>>
       ELSE \E response \in Responses(plan) :
              /\ calls' = <<Call(plan.backend, plan.method, plan.request, response)>>
              /\ rpcs' = <<Handle(plan, TRUE, Outcome(plan, response))>>
              /\ result' = Return(NoneV)

\* A blocking form: the _async form, the worker and get_result() in one call.
Blocking(name, a, plan) ==
  /\ Called(name, a)
  /\ IF plan.raises
       THEN /\ result' = Raise("TypeError")
            /\ calls' = <<>>
            /\ rpcs' = <<>>
       ELSE \E response \in Responses(plan) :
              /\ calls' = <<Call(plan.backend, plan.method, plan.request, response)>>
              /\ rpcs' = <<Handle(plan, TRUE, Outcome(plan, response))>>
              /\ result' = Outcome(plan, response)

SetArgs(instances, module, version) ==
  [module |-> module, version |-> version, instance |-> InstNone,
   instances |-> instances]

set_num_instances_plan(instances, module, version) ==
  IF ~optedIn THEN set_num_instances_async_legacy(instances, module, version)
  ELSE set_num_instances_async_admin(instances, module, version)
start_version_plan(module, version) ==
  IF ~optedIn THEN start_version_async_legacy(module, version)
  ELSE serving_status_async_admin(module, version, "SERVING")
stop_version_plan(module, version) ==
  IF ~optedIn THEN stop_version_async_legacy(module, version)
  ELSE serving_status_async_admin(module, version, "STOPPED")

set_num_instances_async(instances, module, version) ==
  /\ pc = "idle"
  /\ Submit("set_num_instances_async", SetArgs(instances, module, version),
              set_num_instances_plan(instances, module, version))
set_num_instances(instances, module, version) ==
  /\ pc = "idle"
  /\ Blocking("set_num_instances", SetArgs(instances, module, version),
                set_num_instances_plan(instances, module, version))
start_version_async(module, version) ==
  /\ pc = "idle"
  /\ Submit("start_version_async", [NoArgs EXCEPT !.module = module, !.version = version],
              start_version_plan(module, version))
start_version(module, version) ==
  /\ pc = "idle"
  /\ Blocking("start_version", [NoArgs EXCEPT !.module = module, !.version = version],
                start_version_plan(module, version))
stop_version_async(module, version) ==
  /\ pc = "idle"
  /\ Submit("stop_version_async", [NoArgs EXCEPT !.module = module, !.version = version],
              stop_version_plan(module, version))
stop_version(module, version) ==
  /\ pc = "idle"
  /\ Blocking("stop_version", [NoArgs EXCEPT !.module = module, !.version = version],
                stop_version_plan(module, version))
     
NextOperations ==
  \/ get_modules
  \/ \E module \in ModuleArgs : get_versions(module)
  \/ \E module \in ModuleArgs, version \in OpVersionArgs :
       get_num_instances(module, version)
  \/ \E instances \in InstancesArgs, module \in ModuleArgs, version \in OpVersionArgs :
       set_num_instances(instances, module, version)
  \/ \E instances \in InstancesArgs, module \in ModuleArgs, version \in OpVersionArgs :
       set_num_instances_async(instances, module, version)
  \/ \E module \in ModuleArgs, version \in OpVersionArgs : start_version(module, version)
  \/ \E module \in ModuleArgs, version \in OpVersionArgs :
       start_version_async(module, version)
  \/ \E module \in ModuleArgs, version \in OpVersionArgs : stop_version(module, version)
  \/ \E module \in ModuleArgs, version \in OpVersionArgs :
       stop_version_async(module, version)
  \/ _run_target
  \/ RpcCompletes
  \/ get_result
  \/ check_success
  \/ \E module \in ModuleArgs : get_default_version(module)
  \/ \E module \in HostModuleArgs, version \in VersionArgs, instance \in InstanceArgs :
       get_hostname(module, version, instance)
  \/ NextCall

SpecOperations == Init /\ [][NextOperations]_vars

(***************************************************************************)
(* Error translation of the single-request operations.                     *)
(***************************************************************************)
ReadOps == {"get_versions", "get_default_version", "get_num_instances"}
Mutators ==
  {"set_num_instances", "start_version", "stop_version",
   "set_num_instances_async", "start_version_async", "stop_version_async"}

\* A finished call under the Admin backend whose request was answered with
\* an HTTP error status.
AdminFailed(status) ==
  /\ pc = "done" /\ optedIn /\ op \in ReadOps \cup Mutators \cup {"get_modules"}
  /\ Len(calls) = 1
  /\ calls[1].response.status = status
Raised(e) == result.kind = "raise" /\ result.error = e

\* C13 (as claimed): under the Admin backend, a 404 on a request that
\* addresses a module raises InvalidModuleError, a 500 raises TransientError
\* and every other non-2xx status raises the generic Error.
C13_AdminStatusTranslation_Claimed ==
  \A status \in HttpErrorStatuses :
    AdminFailed(status)
      => IF status = 404 THEN (op \in ReadOps => Raised("InvalidModuleError"))
         ELSE IF status = 500 THEN Raised("TransientError")
         ELSE Raised("Error")

\* C13 (amended): under the Admin backend, a failed request of a
\* single-request operation raises: for 404, InvalidModuleError in
\* get_versions, get_default_version and get_num_instances, Error in
\* get_modules, InvalidVersionError in the mutators; for 400,
\* InvalidInstancesError; for 500 and above, TransientError; for any other
\* status, Error.
C13_AdminStatusTranslation ==
  \A status \in HttpErrorStatuses :
    AdminFailed(status)
      => IF status = 404
           THEN Raised(IF op \in ReadOps THEN "InvalidModuleError"
                       ELSE IF op = "get_modules" THEN "Error"
                       ELSE "InvalidVersionError")
         ELSE IF status = 400 THEN Raised("InvalidInstancesError")
         ELSE IF status \in {500, 503} THEN Raised("TransientError")
         ELSE Raised("Error")

C13_Witness ==
  /\ AdminFailed(503) /\ op = "get_num_instances" /\ Raised("TransientError")

\* The PATCH of a finished mutator under the Admin backend, answered with an
\* HTTP status.
PatchIssued ==
  /\ pc = "done" /\ optedIn /\ op \in Mutators
  /\ Len(calls) = 1 /\ calls[1].method = "apps.services.versions.patch"
  /\ calls[1].response # NoHttpResponse
PatchStatus == calls[1].response.status

\* C15: under the Admin backend a failed PATCH of set_num_instances,
\* start_version or stop_version raises InvalidInstancesError for 400,
\* InvalidVersionError for 404, TransientError for 500 and above and the
\* generic Error for any other status; a PATCH answered 200 returns None.
\* The awaited _async forms raise the same from get_result().
C15_PatchFailureTranslation ==
  PatchIssued
    => /\ rpcs[1].done /\ rpcs[1].outcome = result
       /\ CASE PatchStatus = 200 -> result = Return(NoneV)
            [] PatchStatus = 400 -> result = Raise("InvalidInstancesError")
            [] PatchStatus = 404 -> result = Raise("InvalidVersionError")
            [] PatchStatus >= 500 -> result = Raise("TransientError")
            [] OTHER -> result = Raise("Error")

C15_Witness ==
  /\ PatchIssued /\ op = "start_version_async" /\ PatchStatus = 401
  /\ result = Raise("Error")

ServingOps == {"start_version", "stop_version", "start_version_async", "stop_version_async"}

\* A finished start or stop whose backend answered that the version already
\* is in the requested serving state.
AlreadyInState ==
  /\ pc = "done" /\ op \in ServingOps /\ Len(calls) = 1
  /\ IF optedIn THEN calls[1].response.already
     ELSE calls[1].response.code = "UNEXPECTED_STATE"

\* C16 (as claimed): under both backends, starting a version that is already
\* started and stopping one that is already stopped returns normally, also
\* when the backend reports the condition as a failure (UNEXPECTED_STATE on
\* Legacy, an error HTTP status on Admin).
C16_AlreadyInStateAbsorbed_Claimed ==
  AlreadyInState => result = Return(NoneV)

(***************************************************************************)
(* Error translation of the Legacy backend.                                *)
(***************************************************************************)
MutatorOps == {"set_num_instances", "start_version", "stop_version"}
BaseOp ==
  CASE op \in {"set_num_instances_async"} -> "set_num_instances"
    [] op \in {"start_version_async"} -> "start_version"
    [] op \in {"stop_version_async"} -> "stop_version"
    [] OTHER -> op

\* The codes each operation declares as expected, and as ignored.
AllowList ==
  CASE BaseOp = "get_modules" -> {}
    [] BaseOp = "get_versions" -> {"INVALID_MODULE", "TRANSIENT_ERROR"}
    [] BaseOp = "get_default_version" -> {"INVALID_MODULE", "INVALID_VERSION"}
    [] BaseOp = "get_num_instances" -> {"INVALID_VERSION"}
    [] BaseOp = "get_hostname" -> {"INVALID_MODULE", "INVALID_INSTANCES"}
    [] BaseOp \in MutatorOps -> {"INVALID_VERSION", "TRANSIENT_ERROR"}
IgnoreList ==
  IF BaseOp \in {"start_version", "stop_version"} THEN {"UNEXPECTED_STATE"} ELSE {}
TaxonomyOf(code) ==
  CASE code = "INVALID_MODULE" -> "InvalidModuleError"
    [] code = "INVALID_VERSION" -> "InvalidVersionError"
    [] code = "INVALID_INSTANCES" -> "InvalidInstancesError"
    [] code = "TRANSIENT_ERROR" -> "TransientError"
    [] code = "UNEXPECTED_STATE" -> "UnexpectedStateError"

\* A finished call under the Legacy backend whose RPC was answered.
LegacyAnswered ==
  /\ pc = "done" /\ ~optedIn /\ Len(calls) = 1
LegacyCode == calls[1].response.code

\* C17: under the Legacy backend an application error code is translated
\* to its taxonomy class only when it is in the operation's allow-list; a
\* code in the ignore-list (UNEXPECTED_STATE, for start and stop only) makes
\* the call return normally; every other code, known to the error map or
\* not, raises the generic Error carrying the original code.
C17_LegacyAllowList ==
  LegacyAnswered
    => IF LegacyCode = "OK" THEN result.kind = "return"
       ELSE IF LegacyCode \in IgnoreList THEN result = Return(NoneV)
       ELSE IF LegacyCode \in AllowList THEN result = Raise(TaxonomyOf(LegacyCode))
       ELSE result = RaiseMsg("Error", LegacyCode)

C17_Witness ==
  /\ LegacyAnswered /\ op = "get_num_instances" /\ LegacyCode = "TRANSIENT_ERROR"
  /\ result = RaiseMsg("Error", "TRANSIENT_ERROR")

SetNumInstancesCalled ==
  pc # "idle" /\ op \in {"set_num_instances", "set_num_instances_async"}

\* C18: under both backends, set_num_instances and set_num_instances_async
\* called with instances that is not an integer raise TypeError from the
\* call itself: no transport call has been issued and no worker thread or
\* RPC handle has been created.
C18_TypeErrorBeforeDispatch ==
  (SetNumInstancesCalled /\ args.instances.t # "int")
    => /\ pc = "done"
       /\ result = Raise("TypeError")
       /\ calls = <<>>
       /\ rpcs = <<>>

C18_Witness ==
  /\ SetNumInstancesCalled /\ op = "set_num_instances_async" /\ ~optedIn
  /\ args.instances = StrInst("not-an-int")
  /\ result = Raise("TypeError") /\ calls = <<>> /\ rpcs = <<>>

(***************************************************************************)
(* Defaulting of an omitted module or version.                             *)
(***************************************************************************)
DefaultingOps ==
  ReadOps \cup Mutators \cup {"get_hostname"}
TakesVersion == op \in Mutators \cup {"get_num_instances"}

\* The request of the finished call that names the target.
TargetRequest == calls[Len(calls)].request
AddressesTarget ==
  /\ pc = "done" /\ op \in DefaultingOps /\ calls # <<>>
  /\ op = "get_hostname" => (optedIn /\ Len(calls) = 3)

\* An omitted argument stands for the current identity: the Admin request
\* names it; the Legacy request leaves the field unset for the service to
\* fill in.
DefaultsTo(field, current) ==
  IF optedIn THEN field = current ELSE field = NoneV

\* C20 (as claimed): in get_versions, get_default_version, get_num_instances,
\* set_num_instances, start_version, stop_version and get_hostname, under
\* both backends, an omitted module stands for the current module
\* (GAE_SERVICE, else CURRENT_MODULE_ID) and an omitted version for the
\* current version; no operation fails because an argument was omitted.
C20_DefaultsToCurrentIdentity_Claimed ==
  /\ (AddressesTarget /\ args.module = NoneV)
       => DefaultsTo(TargetRequest.module, get_current_module_name)
  /\ (AddressesTarget /\ TakesVersion /\ args.version = NoneV)
       => DefaultsTo(TargetRequest.version, get_current_version_name)
  /\ (pc = "done" /\ op \in {"start_version", "start_version_async"})
       => result # Raise("TypeError")

(***************************************************************************)
(* get_hostname step by step.  _has_opted_in() reads os.environ each time  *)
(* it is called: on entry of get_hostname, and again on entry of the       *)
(* get_modules() and get_versions() calls get_hostname makes.  Between the *)
(* steps another thread of the process may change the variable.            *)
(***************************************************************************)
SetFlag ==
  /\ optedIn' = ~optedIn
  /\ UNCHANGED <<env, pc, op, args, calls, result, rpcs>>

\* Lines 731-746: the flag is read; Legacy serves the whole call, Admin
\* validates the instance.
get_hostname_enter(module, version, instance) ==
  /\ pc = "idle"
  /\ op' = "get_hostname"
  /\ args' = [module |-> module, version |-> version, instance |-> instance]
  /\ IF ~optedIn
       THEN pc' = "done" /\ get_hostname_legacy(module, version, instance)
     ELSE IF instance.t # "none" /\ ~InstanceIsValid(instance)
       THEN /\ pc' = "done"
            /\ Finish(<<>>, RaiseMsg("InvalidInstancesError",
                                     "Instance must be a non-negative integer."))
     ELSE pc' = "get_modules" /\ Finish(<<>>, Return(NoneV))
  /\ UNCHANGED <<optedIn, env, rpcs>>

\* Line 749: services = get_modules(), which reads the flag (line 236).
get_hostname_get_modules ==
  /\ pc = "get_modules"
  /\ IF ~optedIn
       THEN \E code \in LegacyCodes, services \in ServiceLists :
              LET r == _CheckAsyncResult(code, {}, {}, services)
              IN /\ Finish(Append(calls, Call("legacy", "GetModules", Request(NoneV, NoneV),
                                              [code |-> code,
                                               body |-> IF code = "OK" THEN services
                                                        ELSE <<>>])),
                           IF r.kind = "raise" THEN r ELSE result)
                 /\ pc' = IF r.kind = "raise" THEN "done" ELSE "app_get"
       ELSE \/ \E status \in HttpErrorStatuses :
                 /\ Finish(Append(calls, Call("admin", "apps.services.list",
                                              Request(NoneV, NoneV), [status |-> status])),
                           IF status = 404 THEN RaiseMsg("Error", ProjectNotFound)
                           ELSE Raise(_raise_error(status)))
                 /\ pc' = "done"
            \/ \E services \in ServiceLists :
                 /\ Finish(Append(calls, Call("admin", "apps.services.list",
                                              Request(NoneV, NoneV),
                                              [status |-> 200, body |-> services])),
                           result)
                 /\ pc' = "app_get"
  /\ UNCHANGED <<optedIn, env, op, args, rpcs>>

\* Lines 750-792 and 817: apps.get through the Admin client, then every
\* branch that does not call get_versions().
get_hostname_app_get ==
  /\ pc = "app_get"
  /\ LET services == calls[1].response.body
         req_module == Or(args.module, get_current_module_name)
         log(response) == Append(calls, Call("admin", "apps.get", Request(NoneV, NoneV),
                                             response))
         ok == [status |-> 200, body |-> DefaultHostname]
         lists_versions ==
           /\ ModuleKnown(req_module, services)
           /\ ~(Len(services) = 1 /\ services[1] = "default")
           /\ args.instance.t = "none" /\ args.version = NoneV
     IN \/ \E status \in HttpErrorStatuses :
             /\ Finish(log([status |-> status]), Raise(_raise_error(status)))
             /\ pc' = "done"
        \/ /\ lists_versions
           /\ Finish(log(ok), result)
           /\ pc' = "get_versions"
        \/ /\ ~lists_versions
           /\ ResolveHostname(log(ok), args.module, args.version, args.instance,
                              services, DefaultHostname)
           /\ pc' = "done"
  /\ UNCHANGED <<optedIn, env, op, args, rpcs>>

\* Lines 794-814: get_versions(module=req_module), which reads the flag
\* (line 282).
get_hostname_get_versions ==
  /\ pc = "get_versions"
  /\ pc' = "done"
  /\ LET req_module == Or(args.module, get_current_module_name)
         req_version == Or(args.version, get_current_version_name)
     IN IF ~optedIn
          THEN \E code \in LegacyCodes, versions_list \in VersionLists :
                 LET r == _CheckAsyncResult(code, {"INVALID_MODULE", "TRANSIENT_ERROR"},
                                            {}, versions_list)
                 IN Finish(Append(calls, Call("legacy", "GetVersions",
                                              Request(req_module, NoneV), [code |-> code])),
                           IF r.kind = "raise" THEN r
                           ELSE IF req_version \in Range(versions_list)
                             THEN _construct_hostname(<<StrInst(req_version),
                                                        StrInst(req_module),
                                                        StrInst(DefaultHostname)>>)
                             ELSE _construct_hostname(<<StrInst(req_module),
                                                        StrInst(DefaultHostname)>>))
          ELSE NoVersionBranch(calls, req_module, req_version, DefaultHostname)
  /\ UNCHANGED <<optedIn, env, op, args, rpcs>>

NextFlagChange ==
  \/ \E module \in HostModuleArgs, version \in VersionArgs, instance \in InstanceArgs :
       get_hostname_enter(module, version, instance)
  \/ get_hostname_get_modules
  \/ get_hostname_app_get
  \/ get_hostname_get_versions
  \/ SetFlag
  \/ NextCall

SpecFlagChange == Init /\ [][NextFlagChange]_vars

\* C19 (as claimed): every transport call of one get_hostname call goes to
\* one backend, the one selected by the flag read on entry, also when the
\* flag changes while the call is running.
C19_OneBackendPerCall_Claimed ==
  HostnameDone
    => \A i, j \in 1..Len(calls) : calls[i].backend = calls[j].backend

(***************************************************************************)
(* The handle of an Admin _async form.                                     *)
(***************************************************************************)
ThreadHandle == op \in AsyncForms /\ rpcs # <<>> /\ rpcs[1].kind = "thread"
WorkerResponse == calls[1].response

\* C21: for an Admin _async form, submission returns the handle and never
\* raises what the worker raises; get_result() returns only after the worker
\* has finished, returns None when the PATCH succeeded and otherwise raises
\* the exception the worker stored, on the first and on every later
\* get_result().
C21_GetResultReportsWorker ==
  /\ (ThreadHandle /\ pc = "pending") => result = Return("<rpc>")
  /\ (ThreadHandle /\ pc = "done")
       => /\ rpcs[1].done /\ Len(calls) = 1
          /\ result = rpcs[1].outcome
          /\ IF WorkerResponse.status = 200 THEN result = Return(NoneV)
             ELSE result.kind = "raise"

C21_Witness ==
  /\ ThreadHandle /\ pc = "done" /\ op = "stop_version_async"
  /\ WorkerResponse.status = 503 /\ result = Raise("TransientError")

(***************************************************************************)
(* Attempts per request.                                                   *)
(***************************************************************************)
\* The transport call ended in a failure: an HTTP error status or no HTTP
\* response at all; an application error that the operation does not
\* declare as ignored.
CallFailed(call) ==
  IF call.backend = "admin" THEN call.response.status # 200
  ELSE call.response.code \notin {"OK", "PENDING"} \cup IgnoreList

\* C22: no operation retries.  Every request of a call is issued once, a
\* failed transport call is the last one the operation issues, and the
\* finished operation raises.
C22_NoRetry ==
  /\ \A i, j \in 1..Len(calls) : i # j => calls[i].method # calls[j].method
  /\ \A i \in 1..Len(calls) : CallFailed(calls[i]) => i = Len(calls)
  /\ (pc = "done" /\ calls # <<>> /\ CallFailed(calls[Len(calls)]))
       => result.kind = "raise"

C22_Witness ==
  /\ pc = "done" /\ op = "stop_version" /\ optedIn
  /\ Len(calls) = 1 /\ calls[1].response.status = 503
  /\ result = Raise("TransientError")

(***************************************************************************)
(* get_modules and get_num_instances under the Admin backend.              *)
(***************************************************************************)
AdminDone(name) == pc = "done" /\ optedIn /\ op = name /\ Len(calls) = 1
ListedServices == calls[1].response.body

\* C23: under the Admin backend get_modules raises the generic Error with
\* the message "Project '<id>' not found." when services.list is answered
\* 404; on success it returns the ids of the listed services in response
\* order, and the empty list when the response has no 'services' field.
C23_GetModulesAdmin ==
  AdminDone("get_modules")
    => /\ calls[1].response.status = 404
            => result = RaiseMsg("Error", "Project 'project' not found.")
       /\ calls[1].response.status = 200
            => /\ result.kind = "return"
               /\ IF ~ListedServices.hasServices THEN result.value = <<>>
                  ELSE /\ Len(result.value) = Len(ListedServices.services)
                       /\ \A i \in 1..Len(result.value) :
                            result.value[i] = ListedServices.services[i].id

C23_Witness ==
  /\ AdminDone("get_modules") /\ calls[1].response.status = 200
  /\ ListedServices.hasServices
  /\ result = Return(<<"foo", "bar">>)

FetchedDetails == calls[1].response.body

C25_OnlyTaxonomyErrors_Claimed ==
  (pc = "done" /\ calls # <<>> /\ CallFailed(calls[Len(calls)])
   /\ result.kind = "raise")
    => result.error \in Taxonomy

(***************************************************************************)
(* Blocking and non-blocking forms of the mutators.                        *)
(***************************************************************************)
\* The request and the outcome of a mutator as functions of its arguments,
\* the backend and the response alone, whichever form was called.
PlanOfCall ==
  CASE BaseOp = "set_num_instances" ->
         set_num_instances_plan(args.instances, args.module, args.version)
    [] BaseOp = "start_version" -> start_version_plan(args.module, args.version)
    [] BaseOp = "stop_version" -> stop_version_plan(args.module, args.version)
MutatorDone == pc = "done" /\ op \in Mutators

\* C27: for set_num_instances, start_version and stop_version the blocking
\* form and the non-blocking form followed by get_result() issue the same
\* single request and end in the same outcome for the same arguments and
\* the same response; both raise TypeError without a request for arguments
\* the non-blocking form rejects.
C27_BlockingIsAsyncThenGetResult ==
  MutatorDone
    => IF PlanOfCall.raises
         THEN result = Raise("TypeError") /\ calls = <<>>
         ELSE /\ Len(calls) = 1
              /\ calls[1].backend = PlanOfCall.backend
              /\ calls[1].method = PlanOfCall.method
              /\ calls[1].request = PlanOfCall.request
              /\ result = Outcome(PlanOfCall, calls[1].response)

C27_Witness ==
  /\ MutatorDone /\ op = "set_num_instances" /\ optedIn
  /\ args.instances = IntInst(2) /\ args.module = "foo"
  /\ Len(calls) = 1 /\ calls[1].response.status = 404
  /\ result = Raise("InvalidVersionError")

(***************************************************************************)
(* get_hostname with an int instance and with its decimal string.          *)
(***************************************************************************)
\* What get_hostname gives for the instance str(i) after the same reads.
StrTwin == StrInst(PyStr(args.instance.i))
StrTwinOutcome ==
  IF LegacyTopology
    THEN LegacyAppHostname(StrTwin, ReqVersion, DefaultHostname)
  ELSE IF VersionRead
    THEN InstanceHostname(StrTwin, ReadDetails, ReqVersion, ReqModule, DefaultHostname)
  ELSE result
SameOutcome(r1, r2) ==
  /\ r1.kind = r2.kind
  /\ r1.kind = "return" => r1.value = r2.value
  /\ r1.kind = "raise" => r1.error = r2.error

\* C28 (as claimed): under the Admin backend, for every topology and every
\* i >= 0, get_hostname with the int instance i ends as get_hostname with
\* the instance str(i) does: the same hostname or the same error kind.
C28_IntInstanceAsString_Claimed ==
  (HostnameDone /\ ReadsOk /\ ReqModule \in Range(FetchedServices)
   /\ args.instance.t = "int" /\ args.instance.i >= 0)
    => SameOutcome(result, StrTwinOutcome)

\* C29 (as claimed): whenever check_success() on the handle of an Admin
\* _async form returns without raising, the PATCH has been issued and was
\* answered 200.
C29_CheckSuccessMeansSucceeded_Claimed ==
  (pc = "checked" /\ result = Return(NoneV))
    => /\ rpcs[1].done
       /\ Len(calls) = 1 /\ calls[1].response.status = 200

(***************************************************************************)
(* Several Admin _async calls in flight.  Each call constructs its own     *)
(* _ThreadedRpc, whose thread runs the call's own run_request closure;     *)
(* the threads run in any order, and the caller may await the handles in   *)
(* any order, or not at all.                                               *)
(***************************************************************************)
\* The plan of an _async form called with the current module and version.
ThreadPlan(form) ==
  CASE form = "set_num_instances_async" ->
         set_num_instances_async_admin(IntInst(2), NoneV, NoneV)
    [] form = "start_version_async" ->
         serving_status_async_admin(NoneV, NoneV, "SERVING")
    [] form = "stop_version_async" ->
         serving_status_async_admin(NoneV, NoneV, "STOPPED")

\* How the PATCH of a worker can end.
WorkerResponses == { r \in PatchResponses : ~r.already /\ r.status \in {0, 200, 404, 503} }

\* The transport call issued by the thread of handle i.
WorkerCall(i, response) ==
  [backend |-> "admin", method |-> rpcs[i].plan.method,
   request |-> rpcs[i].plan.request, response |-> response, rpc |-> i]

\* An _async form under the Admin backend: _ThreadedRpc.__init__ starts the
\* thread and the handle is returned.
ThreadedRpc_init(form) ==
  /\ optedIn
  /\ pc \in {"idle", "pending", "awaited"}
  /\ Len(rpcs) < MaxHandles
  /\ pc' = "pending"
  /\ op' = form
  /\ args' = IF form = "set_num_instances_async" THEN SetArgs(IntInst(2), NoneV, NoneV)
             ELSE NoArgs
  /\ result' = Return("<rpc>")
  /\ rpcs' = Append(rpcs, Handle(ThreadPlan(form), FALSE, Return(NoneV)))
  /\ UNCHANGED <<optedIn, env, calls>>

\* Variant: the exception is kept in one place shared by all handles.
ThreadedRpc_run_target_SharedException(i) ==
  /\ pc \in {"pending", "awaited"}
  /\ i \in 1..Len(rpcs) /\ ~rpcs[i].done
  /\ \E response \in WorkerResponses :
       LET outcome == Outcome(rpcs[i].plan, response)
       IN /\ calls' = Append(calls, WorkerCall(i, response))
          /\ rpcs' = [j \in 1..Len(rpcs) |->
                        IF j = i THEN Handle(rpcs[i].plan, TRUE, outcome)
                        ELSE [rpcs[j] EXCEPT !.outcome = outcome]]
  /\ UNCHANGED <<optedIn, env, pc, op, args, result>>

\* Variant: the done event is set only when the target returns normally.
ThreadedRpc_run_target_NoFinally(i) ==
  /\ pc \in {"pending", "awaited"}
  /\ i \in 1..Len(rpcs) /\ ~rpcs[i].done /\ rpcs[i].outcome.kind = "return"
  /\ \E response \in WorkerResponses :
       LET outcome == Outcome(rpcs[i].plan, response)
       IN /\ calls' = Append(calls, WorkerCall(i, response))
          /\ rpcs' = [rpcs EXCEPT ![i] = Handle(rpcs[i].plan, outcome.kind = "return",
                                                outcome)]
  /\ UNCHANGED <<optedIn, env, pc, op, args, result>>

\* _ThreadedRpc._run_target on the thread of handle i.
ThreadedRpc_run_target(i) ==
  /\ pc \in {"pending", "awaited"}
  /\ i \in 1..Len(rpcs) /\ ~rpcs[i].done
  /\ \E response \in WorkerResponses :
       /\ calls' = Append(calls, WorkerCall(i, response))
       /\ rpcs' = [rpcs EXCEPT ![i] = Handle(rpcs[i].plan, TRUE,
                                             Outcome(rpcs[i].plan, response))]
  /\ UNCHANGED <<optedIn, env, pc, op, args, result>>

\* get_result() on handle i.
ThreadedRpc_get_result(i) ==
  /\ pc \in {"pending", "awaited"}
  /\ i \in 1..Len(rpcs) /\ rpcs[i].done
  /\ pc' = "awaited"
  /\ op' = "get_result"
  /\ args' = [NoArgs EXCEPT !.instance = IntInst(i)]
  /\ result' = rpcs[i].outcome
  /\ UNCHANGED <<optedIn, env, calls, rpcs>>

\* The caller drops its handles, awaited or not, once their threads have
\* ended.
ReleaseHandles ==
  /\ pc \in {"pending", "awaited"}
  /\ \A i \in 1..Len(rpcs) : rpcs[i].done
  /\ pc' = "idle"
  /\ op' = "none"
  /\ args' = NoArgs
  /\ calls' = <<>>
  /\ result' = Return(NoneV)
  /\ rpcs' = <<>>
  /\ UNCHANGED <<optedIn, env>>

NextConcurrent ==
  \/ \E form \in AsyncForms : ThreadedRpc_init(form)
  \/ \E i \in 1..MaxHandles : ThreadedRpc_run_target(i)
  \/ \E i \in 1..MaxHandles : ThreadedRpc_get_result(i)
  \/ ReleaseHandles

SpecConcurrent == Init /\ [][NextConcurrent]_vars

\* A started thread runs to its end.
SpecConcurrentFair ==
  SpecConcurrent /\ \A i \in 1..MaxHandles : WF_vars(ThreadedRpc_run_target(i))

\* The transport calls issued on behalf of handle i.
OwnCalls(i) == { k \in 1..Len(calls) : calls[k].rpc = i }
OwnCall(i) == calls[CHOOSE k \in OwnCalls(i) : TRUE]
ExpectedOfResponse(response) ==
  CASE response.status = 200 -> Return(NoneV)
    [] response.status = 404 -> Raise("InvalidVersionError")
    [] response.status = 503 -> Raise("TransientError")
    [] response.status = 0 -> Raise("socket.timeout")

\* C26: with several Admin _async calls in flight, under every interleaving
\* of their threads, each handle holds the outcome of its own request only:
\* a handle whose thread has not finished holds no exception, a finished
\* handle holds exactly what its own PATCH ended in, and get_result() on a
\* handle reports that outcome whatever the other handles hold.
C26_HandlesDoNotInteract ==
  /\ \A i \in 1..Len(rpcs) :
       IF rpcs[i].done
         THEN /\ Cardinality(OwnCalls(i)) = 1
              /\ OwnCall(i).request = rpcs[i].plan.request
              /\ rpcs[i].outcome = ExpectedOfResponse(OwnCall(i).response)
         ELSE OwnCalls(i) = {} /\ rpcs[i].outcome = Return(NoneV)
  /\ (pc = "awaited")
       => result = ExpectedOfResponse(OwnCall(args.instance.i).response)

C26_Witness ==
  /\ pc = "awaited" /\ Len(rpcs) = 2 /\ args.instance.i = 1
  /\ rpcs[1].done /\ rpcs[2].done
  /\ calls[1].rpc = 2 /\ calls[1].response.status = 503
  /\ calls[2].rpc = 1 /\ calls[2].response.status = 200
  /\ result = Return(NoneV)
  /\ rpcs[2].outcome = Raise("TransientError")

Dispatched(i) == i \in 1..Len(rpcs) /\ ~rpcs[i].done
Completed(i) == i \in 1..Len(rpcs) /\ rpcs[i].done

\* C30: every handle of an Admin _async call is eventually completed, its
\* done event being set whether the PATCH succeeded or failed, so that
\* wait() and get_result() return; and the PATCH of a handle is issued
\* exactly once, by its own thread, whether or not the caller ever awaits
\* the handle.
C30_HandleEventuallyCompletes ==
  /\ [](\A i \in 1..Len(rpcs) :
          Cardinality(OwnCalls(i)) = IF rpcs[i].done THEN 1 ELSE 0)
  /\ \A i \in 1..MaxHandles : Dispatched(i) ~> Completed(i)

C30_Witness ==
  /\ pc = "pending" /\ Len(rpcs) = 2
  /\ Completed(1) /\ rpcs[1].outcome = Raise("TransientError")
  /\ Completed(2) /\ rpcs[2].outcome = Return(NoneV)
  /\ Len(calls) = 2

====
